---- MODULE Spec2Model ----
(***************************************************************************)
(* The print-job lifecycle of the POS printer service: POSPrinterService   *)
(* (src/server.js) on top of PrinterManager (src/lib/receiptFormatter-     *)
(* dev.js, lines 624-954).  Node runs one callback at a time, so every     *)
(* action below is the code that runs between two awaits that wait for     *)
(* I/O (a child process or a file operation); the tasks interleave only at *)
(* those awaits.                                                           *)
(***************************************************************************)
EXTENDS Integers, Sequences, FiniteSets, TLC

\* ------------------------------------------------------------------ bounds
\* Spec: receipt numbers the HTTP requests of a run bring (1..MaxSubmits), and
\* the last reading of the wall clock (Date.now() / new Date()) in a run.
MaxSubmits == 2
MaxClock == 4
\* SpecSel, the same for the runs with two printers.
MaxSubmitsSel == 1
MaxClockSel == 2
\* SpecFull: requests and clock readings after the backlog.
MoreSubmits == 1
MoreClock == 1

\* SpecApi, the same for the runs with every endpoint in use.
MaxSubmitsApi == 1
\* SpecTwo, the same for the runs with both printers listed.
MaxSubmitsTwo == 2
MaxClockTwo == 2
\* SpecLive: the jobs queued when the printer comes online for good.
BacklogLive == 2
MaxClockApi == 2

\* ------------------------------------------------------- program constants
\* this.maxQueueSize
maxQueueSize == 10

\* printerName = null (POST /print passes no printer name)
NoName == "null"

\* The printers the print system (CUPS) may know, in lpstat's listing order.
AllPrinters == <<"Rongta", "Rongta2">>

\* A requested name that names no printer of the print system.
Ghost == "Ghost"

\* Tasks: the HTTP request being served, the drain pass (processQueue), the
\* setInterval callback of startPrinterDetection, and the handlers of
\* GET /status and POST /preview.
HttpTasks == {"http1"}
Drain == "drain"
Timer == "timer"
Status == "status"
Preview == "preview"
JobTasks == HttpTasks \cup {Drain}
\* The tasks that refresh the printer list.
Tasks == JobTasks \cup {Timer, Status}

\* The order numbers of the receipts sent to POST /preview.
Orders == {"A1", "A2"}

VARIABLES
  printers,          \* PrinterManager.printers
  defaultPrinter,    \* PrinterManager.defaultPrinter ("" for null)
  printQueue,        \* POSPrinterService.printQueue
  isProcessingQueue, \* POSPrinterService.isProcessingQueue
  lastPrintTime,     \* POSPrinterService.lastPrintTime (0 for null)
  clock,             \* the wall clock, one tick per reading
  nextId,            \* the next receipt number an HTTP request brings
  pc,                \* where each task waits
  rq,                \* each HTTP task's request: its receipt (number and body), its printer name
  rf,                \* refreshPrinters call of each task: lines still to do, lpstat -d's answer
  tgt,               \* targetPrinter.name of each processPrintJob call
  resp,              \* what the last processPrintJob call of each HTTP task returned or threw
  http,              \* the HTTP status of the answer to each HTTP task's request (0: none yet)
  job,               \* the job processQueue has shifted and is re-attempting
  spool,             \* per receipt: how often lp accepted it, and for which printer last
  lastDrained,       \* timestamp of the queue entry a drain pass had lp accept last
  taken,             \* the receipts of the jobs the latest drain pass has taken, in order
  trigger,           \* what the step just taken did when it asked for a drain pass
  reply,             \* the answer GET /status or POST /preview sent in the step just taken
  pv,                \* the receipt POST /preview is formatting
  lastPreview,       \* the receipt and the result of the last previewReceipt call,
                     \* whether jobs were queued then, and whether it was the receipt
                     \* of the call before with the queue changed since
  logo,              \* whether the logo file (config.logoPath) exists
  call,              \* the last direct call of formatReceipt or validateReceipt, with its result
  dev,               \* the development server: its printQueue, where its POST /print
                     \* handler waits, and the answer it sent last
  resolved           \* the last processPrintJob call without a printer name that had
                     \* two printers to choose from and no default reported: the
                     \* printers and statuses it saw and the target it chose; forgotten
                     \* when the print system reports anything else

vars == <<printers, defaultPrinter, printQueue, isProcessingQueue, lastPrintTime, clock,
          nextId, pc, rq, rf, tgt, resp, http, job, spool, lastDrained, taken, trigger,
          reply, pv, lastPreview, logo, call, dev, resolved>>

\* What only POST /preview writes, the logo file, which nothing writes, the
\* record of the direct calls, the development server, a process of its own,
\* and the memory of the last choice of a target, which only a refresh writes.
previewVars == <<pv, lastPreview, logo, call, dev, resolved>>

\* ---------------------------------------------------------------------------
\* The receipt formatter (lib/receiptFormatter.js).  A type tag is what the
\* caller passed as `type`: a string, or a value that is no string (null, a
\* number), or nothing (undefined).  A document is given by the schema whose
\* fields it has and by its number; a text is a sequence of control codes and
\* pieces of text.
KnownTypes == {"sales", "cash_transfer", "shift_closure", "shift_handoff", "cash_expense"}
Str(s) == [isString |-> TRUE, text |-> s]
Undefined == [isString |-> FALSE, text |-> "undefined"]
Null == [isString |-> FALSE, text |-> "null"]
Number42 == [isString |-> FALSE, text |-> "42"]

\* String.prototype.toLowerCase on the tags used here.
toLowerCase(text) ==
  CASE text = "SALES" -> "sales"
    [] text = "Sales" -> "sales"
    [] text = "CASH_TRANSFER" -> "cash_transfer"
    [] text = "Shift_Closure" -> "shift_closure"
    [] text = "UNKNOWN_TYPE_XYZ" -> "unknown_type_xyz"
    [] OTHER -> text

\* The default parameter value: type = 'sales' replaces undefined only.
DefaultType(type) == IF type = Undefined THEN Str("sales") ELSE type

\* The label of the line that carries the document's number in each layout,
\* and the field it is read from.
IdLabel(layout) ==
  CASE layout = "sales" -> "Pedido #:"
    [] layout = "cash_transfer" -> "Transfer #:"
    [] layout = "shift_closure" -> "Turno #:"
    [] layout = "shift_handoff" -> "Entrega #:"
    [] layout = "cash_expense" -> "Gasto #:"

getReceiptTypeHeader(layout) ==
  CASE layout = "sales" -> ""
    [] layout = "cash_transfer" -> "TRANSFER DE EFECTIVO"
    [] layout = "shift_closure" -> "CIERRE DE TURNO"
    [] layout = "shift_handoff" -> "ENTREGA DE TURNO"
    [] layout = "cash_expense" -> "GASTO DE CAJA"

\* formatLine(label, value): value.toString() throws when the field is absent,
\* which it is when the document follows another schema than the layout.
formatLine(label, doc, layout) ==
  IF doc.schema = layout THEN [threw |-> FALSE, text |-> <<label, doc.order, "LF">>]
  ELSE [threw |-> TRUE, text |-> <<>>]

\* format<Layout>Receipt: header, the line of the number, the rest.
formatBody(layout, doc) ==
  LET line == formatLine(IdLabel(layout), doc, layout)
  IN  [threw |-> line.threw,
       text |-> <<"BOLD_ON", "CENTER_ON", "RESTAURANT NAME", getReceiptTypeHeader(layout),
                  "BOLD_OFF", "CENTER_OFF", "NORMAL_TEXT">> \o line.text \o <<layout>>]

processLogo(hasLogo) == IF hasLogo THEN <<"CENTER_ON", "[LOGO]", "CENTER_OFF", "LF">> ELSE <<>>

NoText == [threw |-> TRUE, warned |-> FALSE, text |-> <<>>]

\* switch (type.toLowerCase()): the case taken.
Switch(type) ==
  IF toLowerCase(type.text) \in KnownTypes THEN toLowerCase(type.text) ELSE "default"

\* formatReceipt(receipt, type = 'sales'): a throw anywhere is rethrown as
\* 'Failed to format receipt'; the default case warns and formats as sales.
formatReceipt(doc, type, hasLogo) ==
  LET ty == DefaultType(type)
  IN  IF ~ty.isString THEN NoText
      ELSE LET case == Switch(ty)
               body == formatBody(IF case = "default" THEN "sales" ELSE case, doc)
           IN  IF body.threw THEN [NoText EXCEPT !.warned = (case = "default")]
               ELSE [threw |-> FALSE, warned |-> case = "default",
                     text |-> <<"INIT", "CHARSET_PC437", "NORMAL_TEXT">> \o processLogo(hasLogo)
                              \o body.text \o <<"LF", "LF", "LF", "CUT_PAPER">>]

EscPosCodes ==
  {"INIT", "NORMAL_TEXT", "BOLD_ON", "BOLD_OFF", "CENTER_ON", "CENTER_OFF",
   "CHARSET_PC437", "CUT_PAPER"}

\* stripEscPosCodes: every control code becomes its bracketed name.
stripEscPosCodes(text) ==
  [i \in 1..Len(text) |->
     CASE text[i] = "INIT" -> "[INIT]"
       [] text[i] = "NORMAL_TEXT" -> "[NORMAL]"
       [] text[i] = "BOLD_ON" -> "[BOLD-ON]"
       [] text[i] = "BOLD_OFF" -> "[BOLD-OFF]"
       [] text[i] = "CENTER_ON" -> "[CENTER-ON]"
       [] text[i] = "CENTER_OFF" -> "[CENTER-OFF]"
       [] text[i] = "CHARSET_PC437" -> "[PC437]"
       [] text[i] = "CUT_PAPER" -> "[CUT-PAPER]"
       [] OTHER -> text[i]]

\* listEscPosCodes: the control codes the text uses.
listEscPosCodes(text) == {text[i] : i \in 1..Len(text)} \cap EscPosCodes

NoOut == [threw |-> FALSE, raw |-> <<>>, preview |-> <<>>, escPosCodes |-> {},
          type |-> Undefined]

\* previewReceipt(receipt, type = 'sales'); a throw of formatReceipt is rethrown.
previewReceipt(doc, type, hasLogo) ==
  LET formattedReceipt == formatReceipt(doc, type, hasLogo)
  IN  IF formattedReceipt.threw THEN [NoOut EXCEPT !.threw = TRUE]
      ELSE [threw |-> FALSE,
            raw |-> formattedReceipt.text,
            preview |-> stripEscPosCodes(formattedReceipt.text),
            escPosCodes |-> listEscPosCodes(formattedReceipt.text),
            type |-> DefaultType(type)]


\* ---------------------------------------------------------------------------
\* The validators (lib/receiptFormatter-dev.js).  A receipt is null or the set
\* of the fields it carries with a value of the right kind; the error list is
\* given by the fields the messages are about.
Required(type) ==
  CASE type = "sales" ->
         {"orderNumber", "date", "items", "subtotal", "tax", "total", "paymentMethod"}
    [] type = "cash_transfer" ->
         {"transferId", "date", "senderName", "receiverName", "amount", "locationName",
          "printTime"}
    [] type = "shift_closure" ->
         {"shiftId", "shiftType", "shiftDate", "cashierName", "startTime", "endTime",
          "startingCash", "endingCashExpected", "endingCashCounted", "variance",
          "shiftSales", "transfersOut", "locationName", "printTime"}
    [] type = "shift_handoff" ->
         {"handoffId", "handoffDate", "outgoingCashier", "incomingCashier", "handoffAmount",
          "verifiedAmount", "variance", "status", "locationName", "printTime"}
    [] type = "cash_expense" ->
         {"expenseId", "cashExpenseId", "date", "cashierName", "category", "description",
          "amount", "shiftInfo", "locationName", "printTime"}

NullReceipt == [isNull |-> TRUE, fields |-> {}]
Fields(fs) == [isNull |-> FALSE, fields |-> fs]

\* validate<Type>Receipt: one message for a null receipt, else one message for
\* each required field that is absent or of the wrong kind.
validateTyped(type, receipt) ==
  IF receipt.isNull THEN [threw |-> FALSE, valid |-> FALSE, errors |-> {"receipt"}]
  ELSE LET errors == Required(type) \ receipt.fields
       IN  [threw |-> FALSE, valid |-> errors = {}, errors |-> errors]

validateSalesReceipt(receipt) == validateTyped("sales", receipt)

ValidationThrew == [threw |-> TRUE, valid |-> FALSE, errors |-> {}]

\* validateReceipt(receipt, type = 'sales'): the switch is on
\* type.toLowerCase(), which throws for a type that is no string.
validateReceipt(receipt, type) ==
  LET ty == DefaultType(type)
  IN  IF ~ty.isString THEN ValidationThrew
      ELSE IF Switch(ty) = "default" THEN validateSalesReceipt(receipt)
      ELSE validateTyped(Switch(ty), receipt)

NoCall == [op |-> "none", doc |-> [schema |-> "", order |-> ""], receipt |-> NullReceipt,
           type |-> Undefined, threw |-> FALSE, warned |-> FALSE, text |-> <<>>,
           valid |-> FALSE, errors |-> {}]

\* No choice of a target remembered.
NoResolved == [list |-> <<>>, target |-> ""]

\* The development server before its first request.
NoDev == [printQueue |-> <<>>, pc |-> "idle", http |-> 0, error |-> ""]

\* --------------------------------------------------------------- helpers
NoJob == [receipt |-> 0, printerName |-> NoName, timestamp |-> 0]
\* What validateReceiptData looks at in a receipt: its scalar fields (orderNumber,
\* date, subtotal, tax, total, paymentMethod) and the shape of its items:
\* an array of well-formed items, no items field, an empty array, a non-empty
\* string, an array with an item whose fields are mistyped, an array holding null.
ItemsShapes == {"ok", "missing", "empty", "string", "badItem", "nullItem"}
GoodReceipt == [scalars |-> "ok", items |-> "ok"]
\* A request body without a receipt.
NoReceipt == [scalars |-> "none", items |-> "none"]
Receipts ==
  {NoReceipt} \cup {[scalars |-> f, items |-> i] : f \in {"ok", "missing"}, i \in ItemsShapes}

PreviewReceipts ==
  {GoodReceipt, NoReceipt, [scalars |-> "ok", items |-> "empty"],
   [scalars |-> "missing", items |-> "nullItem"]}
NoArgs == [receipt |-> 0, printerName |-> NoName, body |-> GoodReceipt]
NoPreview == [receipt |-> NoReceipt, order |-> "", out |-> NoOut]
NoMemory == [receipt |-> NoReceipt, order |-> "", out |-> NoOut, queued |-> FALSE,
             again |-> FALSE]
NoRefresh == [lines |-> <<>>, dflt |-> ""]
NoResp == [kind |-> "none", position |-> 0, printerId |-> ""]
NoReply == [kind |-> "none", http |-> 0, queueLength |-> 0, maxQueueSize |-> 0,
            lastPrintTime |-> 0, preview |-> NoOut]

Outcome(kind, position, printerId) ==
  [kind |-> kind, position |-> position, printerId |-> printerId]

\* parsePrinterStatus: the status lpstat -p prints, by keyword, in the code's order.
parsePrinterStatus(statusText) ==
  IF statusText \in {"idle", "ready"} THEN "online"
  ELSE IF statusText \in {"disabled", "stopped"} THEN "offline"
  ELSE IF statusText \in {"busy", "printing"} THEN "online"
  ELSE "error"

\* `lpstat -p`: one line per printer the print system lists, in its order.
RECURSIVE LpstatP(_, _)
LpstatP(c, i) ==
  IF i > Len(AllPrinters) THEN <<>>
  ELSE (IF c[i] = "absent" THEN <<>>
        ELSE <<[name |-> AllPrinters[i], statusText |-> c[i]]>>) \o LpstatP(c, i + 1)

\* The characters of a printer name.
NameChars(n) ==
  IF n = "Rongta" THEN <<"R", "o", "n", "g", "t", "a">>
  ELSE IF n = "Rongta2" THEN <<"R", "o", "n", "g", "t", "a", "2">>
  ELSE <<"G", "h", "o", "s", "t">>

\* The output of `lpstat -d` (and '' when the command fails: .catch(() => ({stdout: ''}))).
LpstatD(d) ==
  IF d = ""
  THEN <<"n", "o", " ", "s", "y", "s", "t", "e", "m", " ", "d", "e", "f", "a", "u", "l", "t",
         " ", "d", "e", "s", "t", "i", "n", "a", "t", "i", "o", "n">>
  ELSE <<"s", "y", "s", "t", "e", "m", " ", "d", "e", "f", "a", "u", "l", "t", " ",
         "d", "e", "s", "t", "i", "n", "a", "t", "i", "o", "n", ":", " ">> \o NameChars(d)

\* String.prototype.includes
Includes(text, sub) ==
  \E i \in 1..(Len(text) - Len(sub) + 1) : SubSeq(text, i, i + Len(sub) - 1) = sub

\* isDefault: defaultPrinter.includes(name), a substring test on lpstat -d's output.
IsDefaultName(d, name) == Includes(LpstatD(d), NameChars(name))

\* Array.prototype.find over the indices I that satisfy the callback: the first
\* of them, 0 (undefined) when there is none.
Find(I) == IF I = {} THEN 0 ELSE CHOOSE i \in I : \A k \in I : i <= k

\* The entries the callbacks of find() accept:
\* p => p.name === printerName, p => p.isDefault, p => p.status === 'online'
Named(P, printerName) == {i \in 1..Len(P) : P[i].name = printerName}
Flagged(P) == {i \in 1..Len(P) : P[i].isDefault}
Online(P) == {i \in 1..Len(P) : P[i].status = "online"}

\* (a choice that goes to the first online printer when there is one)
SelectOnlineFirst(P, printerName) ==
  IF Find(Online(P)) # 0 THEN Find(Online(P))
  ELSE IF printerName # NoName THEN Find(Named(P, printerName))
  ELSE IF Find(Flagged(P)) # 0 THEN Find(Flagged(P))
  ELSE IF Len(P) > 0 THEN 1 ELSE 0

\* processPrintJob's choice of targetPrinter (an index into printers, 0: undefined):
\*   printerName ? printers.find(p => p.name === printerName)
\*               : printers.find(p => p.isDefault) || printers[0]
SelectTarget(P, printerName) ==
  IF printerName # NoName THEN Find(Named(P, printerName))
  ELSE IF Find(Flagged(P)) # 0 THEN Find(Flagged(P))
  ELSE IF Len(P) > 0 THEN 1 ELSE 0


\* ------------------------------------------- POSPrinterService.validateReceiptData
\* validateReceiptData: the number of messages pushed, and whether the
\* forEach over the items throws a TypeError (items truthy and no array: no
\* forEach; a null item: item.name) instead of returning.
validateReceiptData(receipt) ==
  IF receipt = NoReceipt THEN [valid |-> FALSE, errors |-> 1, threw |-> FALSE]
  ELSE LET e == (IF receipt.scalars = "missing" THEN 1 ELSE 0)
                + (IF receipt.items \in {"missing", "empty", "string"} THEN 1 ELSE 0)
                + (IF receipt.items = "badItem" THEN 1 ELSE 0)
       IN  [valid |-> e = 0, errors |-> e, threw |-> receipt.items \in {"string", "nullItem"}]

\* ------------------------------------------------- PrinterManager.refreshPrinters
\* The printer object built for one line of lpstat -p.
MakePrinter(line, d) ==
  [name |-> line.name,
   status |-> parsePrinterStatus(line.statusText),
   isDefault |-> IsDefaultName(d, line.name)]

\* One turn of the for loop after getPrinterInfo returned: push onto this.printers
\* (whatever array that is by now) and remember a default.
\* Result: <<printers, defaultPrinter>>.
PushPrinter(P, D, line, d) ==
  LET printer == MakePrinter(line, d)
  IN  <<Append(P, printer), IF printer.isDefault THEN printer.name ELSE D>>

\* After the loop: with no default remembered, flag the first online printer.
FallbackDefault(P, D) ==
  IF D = "" /\ Len(P) > 0 /\ Find(Online(P)) # 0
  THEN LET i == Find(Online(P))
       IN  <<[P EXCEPT ![i].isDefault = TRUE], P[i].name>>
  ELSE <<P, D>>

\* A whole refreshPrinters with no other refresh in flight (initialize()).
RECURSIVE RefreshFrom(_, _, _, _, _)
RefreshFrom(P, D, list, d, i) ==
  IF i > Len(list) THEN FallbackDefault(P, D)
  ELSE LET r == PushPrinter(P, D, list[i], d)
       IN  RefreshFrom(r[1], r[2], list, d, i + 1)

\* ------------------------------------------------------------ the print queue
\* (a capacity test that lets one job too many in)
HasCapacityInclusive(q) == Len(q) <= maxQueueSize

\* this.printQueue.length < this.maxQueueSize
HasCapacity(q) == Len(q) < maxQueueSize

\* this.printQueue.push({ receipt, printerName, timestamp: Date.now() })
Enqueue(q, a, now) ==
  Append(q, [receipt |-> a.receipt, printerName |-> a.printerName, timestamp |-> now])

\* "Queue position: ${this.printQueue.length}", read after the push
QueuePosition(q) == Len(q)

\* this.printQueue.unshift(job)
Unshift(q, j) == <<j>> \o q

\* ------------------------------------------- POSPrinterService, as state changes
\* The service's fields and the tasks' positions, as one value the steps rewrite.
Cur ==
  [q |-> printQueue, flag |-> isProcessingQueue, last |-> lastPrintTime, clk |-> clock,
   pc |-> pc, resp |-> resp, http |-> http, job |-> job, tgt |-> tgt, spool |-> spool,
   drained |-> lastDrained, taken |-> taken, trigger |-> "none", reply |-> NoReply]

Commit(S) ==
  /\ printQueue' = S.q
  /\ isProcessingQueue' = S.flag
  /\ lastPrintTime' = S.last
  /\ clock' = S.clk
  /\ pc' = S.pc
  /\ resp' = S.resp
  /\ http' = S.http
  /\ job' = S.job
  /\ tgt' = S.tgt
  /\ spool' = S.spool
  /\ lastDrained' = S.drained
  /\ taken' = S.taken
  /\ trigger' = S.trigger
  /\ reply' = S.reply

\* The arguments of task t's processPrintJob call: processQueue passes the job's.
Args(S, t) ==
  IF t = Drain THEN [receipt |-> S.job.receipt, printerName |-> S.job.printerName]
  ELSE rq[t]

\* (a loop head that takes the newest job, pop() for shift())
processQueueNewest(S) ==
  IF Len(S.q) > 0
  THEN [S EXCEPT !.job = S.q[Len(S.q)], !.q = SubSeq(S.q, 1, Len(S.q) - 1),
                 !.pc[Drain] = "lpstat", !.taken = Append(@, S.q[Len(S.q)].receipt)]
  ELSE [S EXCEPT !.flag = FALSE, !.job = NoJob, !.pc[Drain] = "idle"]

\* processQueue's loop head: shift the next job and call processPrintJob (which
\* runs up to its first await, in refreshPrinters), or leave the loop and clear the flag.
processQueueNext(S) ==
  IF Len(S.q) > 0
  THEN [S EXCEPT !.job = Head(S.q), !.q = Tail(S.q), !.pc[Drain] = "lpstat",
                 !.taken = Append(@, Head(S.q).receipt)]
  ELSE [S EXCEPT !.flag = FALSE, !.job = NoJob, !.pc[Drain] = "idle"]

\* (an entry that does not look at the flag)
processQueueRestart(S) ==
  IF Len(S.q) = 0 THEN S
  ELSE processQueueNext([S EXCEPT !.flag = TRUE, !.trigger = "started", !.taken = <<>>])

\* processQueue() from its entry to its first await:
\*   if (this.isProcessingQueue || this.printQueue.length === 0) return;
processQueueStart(S) ==
  IF S.flag THEN [S EXCEPT !.trigger = "declined"]
  ELSE IF Len(S.q) = 0 THEN S
  ELSE processQueueNext([S EXCEPT !.flag = TRUE, !.trigger = "started", !.taken = <<>>])

\* (a pass that keeps the flag up when it stops on a job queued again)
processQueueResumeFlagged(S, out) ==
  IF out.kind = "Queued"
  THEN [S EXCEPT !.q = Unshift(S.q, S.job), !.job = NoJob, !.pc[Drain] = "idle"]
  ELSE processQueueNext(S)

\* (a pass that puts a job back and stops when its print failed, too)
processQueueResumeRetry(S, out) ==
  IF out.kind \in {"Queued", "PrintFailed"}
  THEN [S EXCEPT !.q = Unshift(S.q, S.job), !.flag = FALSE, !.job = NoJob,
                 !.pc[Drain] = "idle"]
  ELSE processQueueNext(S)

\* processQueue after `await this.processPrintJob(...)`: a job queued again is put
\* back in front and the pass stops; a printed job, and a throw, go on with the next.
processQueueResume(S, out) ==
  IF out.kind = "Queued"
  THEN [S EXCEPT !.q = Unshift(S.q, S.job), !.flag = FALSE, !.job = NoJob,
                 !.pc[Drain] = "idle"]
  ELSE processQueueNext(S)

\* The outcomes processPrintJob throws (the others it returns).
Thrown(out) == out.kind \in {"NoPrintersAvailable", "QueueFull", "PrintFailed"}

\* The HTTP status the POST /print and /test-print handlers answer with:
\* res.json(result) for a returned result, res.status(500) in their catch.
Reply(out) == IF Thrown(out) THEN 500 ELSE 200

\* processPrintJob returns or throws `out` to its caller.
Return(S, t, out) ==
  IF t = Drain THEN processQueueResume([S EXCEPT !.tgt[t] = ""], out)
  ELSE [S EXCEPT !.pc[t] = "done", !.resp[t] = out, !.tgt[t] = "", !.http[t] = Reply(out)]

\* (a job without a target is queued)
NoTargetQueued(S, t) ==
  LET q1 == Enqueue(S.q, Args(S, t), S.clk)
  IN  Return([S EXCEPT !.q = q1], t, Outcome("Queued", Len(q1), ""))

\* if (!targetPrinter) throw new Error('No printers available'): the one error
\* for an empty snapshot and for a requested name the snapshot does not hold.
NoTarget(S, t) == Return(S, t, Outcome("NoPrintersAvailable", 0, ""))

\* (a job whose print failed is queued)
FailedQueued(S, t) ==
  LET q1 == Enqueue(S.q, Args(S, t), S.clk)
  IN  Return([S EXCEPT !.q = q1], t, Outcome("Queued", Len(q1), S.tgt[t]))

\* print() threw: processPrintJob's catch logs the error and throws it again.
Failed(S, t) == Return(S, t, Outcome("PrintFailed", 0, S.tgt[t]))

\* (a request that asks for a drain pass whenever it has decided)
DecideAndDrain(S, t, P) ==
  LET a == Args(S, t)
      i == SelectTarget(P, a.printerName)
      D == IF i = 0
           THEN NoTarget(S, t)
           ELSE IF P[i].status # "online"
           THEN IF HasCapacity(S.q)
                THEN LET now == S.clk + 1
                         q1 == Enqueue(S.q, a, now)
                     IN  Return([S EXCEPT !.q = q1, !.clk = now], t,
                                Outcome("Queued", QueuePosition(q1), P[i].name))
                ELSE Return(S, t, Outcome("QueueFull", 0, ""))
           ELSE [S EXCEPT !.pc[t] = "format", !.tgt[t] = P[i].name]
  IN  IF t # Drain /\ ~D.flag THEN processQueueStart(D) ELSE D

\* processPrintJob from the snapshot P to its next await or its end.
Decide(S, t, P) ==
  LET a == Args(S, t)
      i == SelectTarget(P, a.printerName)
  IN  IF i = 0
      THEN NoTarget(S, t)
      ELSE IF P[i].status # "online"
      THEN IF HasCapacity(S.q)
           THEN LET now == S.clk + 1
                    q1 == Enqueue(S.q, a, now)
                IN  Return([S EXCEPT !.q = q1, !.clk = now], t,
                           Outcome("Queued", QueuePosition(q1), P[i].name))
           ELSE Return(S, t, Outcome("QueueFull", 0, ""))
      ELSE [S EXCEPT !.pc[t] = "format", !.tgt[t] = P[i].name]

\* (a check that the printer is in the list, whatever its status)
PrintCheckListed(P, name) ==
  IF Find(Named(P, name)) = 0 THEN "not found" ELSE "ok"

\* PrinterManager.print's checks before it writes the temporary file.
PrintCheck(P, name) ==
  LET i == Find(Named(P, name))
  IN  IF i = 0 THEN "not found"
      ELSE IF P[i].status # "online" THEN "not online"
      ELSE "ok"

\* (a print that returns without asking for a drain pass)
PrintedNoDrain(S, t) ==
  LET now == S.clk + 1
      a == Args(S, t)
      S1 == [S EXCEPT !.clk = now, !.last = now,
                      !.spool[a.receipt] = [count |-> @.count + 1, printer |-> S.tgt[t]],
                      !.drained = IF t = Drain THEN S.job.timestamp ELSE @]
  IN  Return(S1, t, Outcome("Printed", 0, S.tgt[t]))

\* (a print that records the time for requests only, not for a drain pass)
PrintedDirectStamp(S, t) ==
  LET now == S.clk + 1
      a == Args(S, t)
      S1 == [S EXCEPT !.clk = now, !.last = IF t = Drain THEN @ ELSE now,
                      !.spool[a.receipt] = [count |-> @.count + 1, printer |-> S.tgt[t]],
                      !.drained = IF t = Drain THEN S.job.timestamp ELSE @]
      S2 == IF ~S1.flag THEN processQueueStart(S1)
            ELSE IF t = Drain THEN S1
            ELSE [S1 EXCEPT !.trigger = "declined"]
  IN  Return(S2, t, Outcome("Printed", 0, S.tgt[t]))

\* processPrintJob after print() resolved: record the time, start a drain pass
\* unless one is running, and return.
Printed(S, t) ==
  LET now == S.clk + 1
      a == Args(S, t)
      S1 == [S EXCEPT !.clk = now, !.last = now,
                      !.spool[a.receipt] = [count |-> @.count + 1, printer |-> S.tgt[t]],
                      !.drained = IF t = Drain THEN S.job.timestamp ELSE @]
      S2 == IF ~S1.flag THEN processQueueStart(S1)
            ELSE IF t = Drain THEN S1
            ELSE [S1 EXCEPT !.trigger = "declined"]
  IN  Return(S2, t, Outcome("Printed", 0, S.tgt[t]))

\* (a status answer that counts the job a drain pass holds as queued)
StatusReplyHeld(S) ==
  [S EXCEPT !.pc[Status] = "idle",
            !.reply = [NoReply EXCEPT !.kind = "status", !.http = 200,
                                      !.queueLength = Len(S.q) + (IF S.flag THEN 1 ELSE 0),
                                      !.maxQueueSize = maxQueueSize,
                                      !.lastPrintTime = S.last]]

\* GET /status after getAvailablePrinters: the answer is built from the fields
\* as they are now.  (Its uptime and timestamp, two more readings of the clock
\* that nothing keeps, are left out.)
StatusReply(S) ==
  [S EXCEPT !.pc[Status] = "idle",
            !.reply = [NoReply EXCEPT !.kind = "status", !.http = 200,
                                      !.queueLength = Len(S.q),
                                      !.maxQueueSize = maxQueueSize,
                                      !.lastPrintTime = S.last]]

\* (a preview that shows the logo only while nothing is queued)
PreviewEndStateful(S, p, hasLogo) ==
  LET out == previewReceipt([schema |-> "sales", order |-> p.order], Undefined,
                            hasLogo /\ S.q = <<>>)
  IN  [S EXCEPT !.pc[Preview] = "idle",
                !.reply = [NoReply EXCEPT !.kind = "preview",
                                          !.http = IF out.threw THEN 500 ELSE 200,
                                          !.preview = out]]

\* (a preview that also queues the receipt it was given)
PreviewEndQueued(S, p, hasLogo) ==
  LET out == previewReceipt([schema |-> "sales", order |-> p.order], Undefined, hasLogo)
  IN  [S EXCEPT !.pc[Preview] = "idle",
                !.q = Append(S.q, [receipt |-> 0, printerName |-> NoName, timestamp |-> S.clk]),
                !.reply = [NoReply EXCEPT !.kind = "preview",
                                          !.http = IF out.threw THEN 500 ELSE 200,
                                          !.preview = out]]

\* POST /preview after previewReceipt(receipt): the handler passes no type; it
\* answers with the preview, or 500 when the formatter threw.
PreviewEnd(S, p, hasLogo) ==
  LET out == previewReceipt([schema |-> "sales", order |-> p.order], Undefined, hasLogo)
  IN  [S EXCEPT !.pc[Preview] = "idle",
                !.reply = [NoReply EXCEPT !.kind = "preview",
                                          !.http = IF out.threw THEN 500 ELSE 200,
                                          !.preview = out]]

\* (a timer callback that refreshes only)
AfterRefreshOnly(S, t, P) ==
  IF t = Timer THEN [S EXCEPT !.pc[Timer] = "idle"]
  ELSE IF t = Status THEN StatusReply(S)
  ELSE Decide(S, t, P)

\* What follows a finished refresh: processPrintJob goes on with the snapshot;
\* the timer callback starts a drain pass when jobs are queued.
\* The name of the printer a call without a printer name resolves to in P.
TargetOf(P) ==
  LET i == SelectTarget(P, NoName) IN IF i = 0 THEN "" ELSE P[i].name

\* The names and statuses of a list of printers, and of a listing of lpstat -p.
Seen(P) == [i \in 1..Len(P) |-> [name |-> P[i].name, status |-> P[i].status]]
Reported(list) ==
  [i \in 1..Len(list) |-> [name |-> list[i].name,
                            status |-> parsePrinterStatus(list[i].statusText)]]

\* What is remembered once the refresh of task t, which read the default d from
\* the print system, has returned P, a list with each printer once, while no
\* other refresh is between its reading and its end.
Resolve(R, S, t, P, d) ==
  IF /\ t \in JobTasks
     /\ Args(S, t).printerName = NoName
     /\ d = ""
     /\ Len(P) > 1
     /\ \A i, k \in 1..Len(P) : i # k => P[i].name # P[k].name
     /\ \A u \in Tasks \ {t} : S.pc[u] # "info"
  THEN [list |-> Seen(P), target |-> TargetOf(P)]
  ELSE R

\* What is remembered once lpstat has answered `list` and the default d.
Observe(R, list, d) ==
  IF R.list # <<>> /\ (d # "" \/ Reported(list) # R.list) THEN NoResolved ELSE R

AfterRefresh(S, t, P) ==
  IF t = Timer
  THEN LET S1 == IF Len(S.q) > 0 THEN processQueueStart(S) ELSE S
       IN  [S1 EXCEPT !.pc[Timer] = "idle"]
  ELSE IF t = Status THEN StatusReply(S)
  ELSE Decide(S, t, P)


\* ---------------------------------------------------------------- actions
\* What the print system can answer.  It changes on its own (printers are
\* enabled, disabled, added, removed; the default destination is set or unset),
\* so every lpstat reads some answer of these, whatever the earlier ones were.
StatusTexts == {"idle", "disabled"}
Worlds == [1..Len(AllPrinters) -> StatusTexts \cup {"absent"}]
\* Spec: one printer, "Rongta", in any state, and no default destination;
\* requests come by POST /print, which passes no printer name.
Listings == {LpstatP(c, 1) : c \in {w \in Worlds : w[2] = "absent"}}
Defaults == {""}
RequestNames == {NoName}
\* SpecSel: two printers, the second one enabled when the first is listed;
\* requests come by POST /test-print too, which passes the body's printerName.
ListingsSel ==
  {LpstatP(c, 1) : c \in {w \in Worlds : w[2] = "idle" \/ (w[1] = "absent" /\ w[2] = "absent")}}
DefaultsSel == {"", "Rongta"}
RequestNamesSel == {NoName, "Rongta", Ghost}
\* SpecTwo: both printers are listed, each enabled or disabled, and no default
\* destination.
ListingsTwo ==
  {LpstatP(c, 1) : c \in {w \in Worlds : w[1] # "absent" /\ w[2] # "absent"}}
\* SpecFull: the one printer is listed.
ListingsFull == {l \in Listings : Len(l) > 0}
\* SpecDrain: the one printer is listed and enabled.
ListingsDrain == {l \in ListingsFull : \A i \in 1..Len(l) : l[i].statusText = "idle"}

\* start(): printerManager.initialize() has refreshed once, alone, before the
\* server listens; nothing is queued and no task runs.
InitWith(listings, defaults, maxSubmits, logos) ==
  /\ logo \in logos
  /\ \E list \in listings, d \in defaults :
       LET r == RefreshFrom(<<>>, "", list, d, 1)
       IN  printers = r[1] /\ defaultPrinter = r[2]
  /\ printQueue = <<>>
  /\ isProcessingQueue = FALSE
  /\ lastPrintTime = 0
  /\ clock = 0
  /\ nextId = 1
  /\ pc = [t \in Tasks \cup {Preview} |-> "idle"]
  /\ rq = [t \in HttpTasks |-> NoArgs]
  /\ rf = [t \in Tasks |-> NoRefresh]
  /\ tgt = [t \in JobTasks |-> ""]
  /\ resp = [t \in HttpTasks |-> NoResp]
  /\ http = [t \in HttpTasks |-> 0]
  /\ job = NoJob
  /\ spool = [r \in 1..maxSubmits |-> [count |-> 0, printer |-> ""]]
  /\ lastDrained = 0
  /\ taken = <<>>
  /\ trigger = "none"
  /\ reply = NoReply
  /\ pv = NoPreview
  /\ lastPreview = NoMemory
  /\ call = NoCall
  /\ dev = NoDev
  /\ resolved = NoResolved

Init == InitWith(Listings, Defaults, MaxSubmits, {FALSE})

InitSel == InitWith(ListingsSel, DefaultsSel, MaxSubmitsSel, {FALSE})

InitTwo == InitWith(ListingsTwo, Defaults, MaxSubmitsTwo, {FALSE})

InitApi == InitWith(Listings, Defaults, MaxSubmitsApi, {FALSE})

\* The formatter and the validators on their own, with and without a logo file.
InitFormat == InitWith(Listings, Defaults, MaxSubmitsApi, BOOLEAN)

\* The logo file is there; nothing in the service creates or removes it.
InitPreview == InitWith(Listings, Defaults, MaxSubmitsApi, {TRUE})

\* The service after b requests (receipts 1..b, no printer name) found the
\* printer disabled one after the other and were queued, with no drain pass and
\* no print so far.  Receipt numbers and clock readings go on from maxQueueSize.
InitBacklog(b) ==
  /\ logo = FALSE
  /\ printers = <<[name |-> "Rongta", status |-> "offline", isDefault |-> FALSE]>>
  /\ defaultPrinter = ""
  /\ printQueue = [i \in 1..b |-> [receipt |-> i, printerName |-> NoName, timestamp |-> i]]
  /\ isProcessingQueue = FALSE
  /\ lastPrintTime = 0
  /\ clock = maxQueueSize
  /\ nextId = maxQueueSize + 1
  /\ pc = [t \in Tasks \cup {Preview} |-> "idle"]
  /\ rq = [t \in HttpTasks |-> NoArgs]
  /\ rf = [t \in Tasks |-> NoRefresh]
  /\ tgt = [t \in JobTasks |-> ""]
  /\ resp = [t \in HttpTasks |-> NoResp]
  /\ http = [t \in HttpTasks |-> 0]
  /\ job = NoJob
  /\ spool = [r \in 1..(maxQueueSize + MoreSubmits) |-> [count |-> 0, printer |-> ""]]
  /\ lastDrained = 0
  /\ taken = <<>>
  /\ trigger = "none"
  /\ reply = NoReply
  /\ pv = NoPreview
  /\ lastPreview = NoMemory
  /\ call = NoCall
  /\ dev = NoDev
  /\ resolved = NoResolved

\* A backlog one short of the queue's capacity, or at it.
InitFull == \E b \in {maxQueueSize - 1, maxQueueSize} : InitBacklog(b)

\* A full backlog, built while the printer was disabled.
InitDrain == InitBacklog(maxQueueSize)

\* A short backlog, built while the printer was disabled.
InitLive == InitBacklog(BacklogLive)

\* POST /print (no printer name) or POST /test-print (printerName from the body):
\* processPrintJob runs to its first await, the lpstat -p of refreshPrinters.
Submit(t, name) ==
  /\ pc[t] \in {"idle", "done"}
  /\ rq' = [rq EXCEPT ![t] = [receipt |-> nextId, printerName |-> name,
                              body |-> GoodReceipt]]
  /\ nextId' = nextId + 1
  /\ pc' = [pc EXCEPT ![t] = "lpstat"]
  /\ resp' = [resp EXCEPT ![t] = NoResp]
  /\ http' = [http EXCEPT ![t] = 0]
  /\ trigger' = "none"
  /\ reply' = NoReply
  /\ UNCHANGED previewVars
  /\ UNCHANGED <<printers, defaultPrinter, printQueue, isProcessingQueue,
                 lastPrintTime, clock, rf, tgt, job, spool, lastDrained, taken>>

\* POST /print: the handler validates req.body.receipt first.  A receipt with
\* errors is answered 400; a throw of the validation lands in the handler's
\* catch and is answered 500; processPrintJob is called in neither case.
PostPrint(t, receipt) ==
  LET v == validateReceiptData(receipt)
  IN  IF v.threw \/ ~v.valid
      THEN /\ pc[t] \in {"idle", "done"}
           /\ rq' = [rq EXCEPT ![t] = [receipt |-> 0, printerName |-> NoName,
                                       body |-> receipt]]
           /\ pc' = [pc EXCEPT ![t] = "done"]
           /\ resp' = [resp EXCEPT ![t] =
                         Outcome(IF v.threw THEN "Error" ELSE "ValidationError", 0, "")]
           /\ http' = [http EXCEPT ![t] = IF v.threw THEN 500 ELSE 400]
           /\ trigger' = "none"
           /\ reply' = NoReply
           /\ UNCHANGED previewVars
           /\ UNCHANGED <<printers, defaultPrinter, printQueue, isProcessingQueue,
                          lastPrintTime, clock, nextId, rf, tgt, job, spool, lastDrained, taken>>
      ELSE Submit(t, NoName)

\* The setInterval callback of startPrinterDetection: refreshPrinters starts.
TimerFire ==
  /\ pc[Timer] = "idle"
  /\ pc' = [pc EXCEPT ![Timer] = "lpstat"]
  /\ trigger' = "none"
  /\ reply' = NoReply
  /\ UNCHANGED previewVars
  /\ UNCHANGED <<printers, defaultPrinter, printQueue, isProcessingQueue, lastPrintTime,
                 clock, nextId, rq, rf, tgt, resp, http, job, spool, lastDrained, taken>>

\* refreshPrinters: `lpstat -p` returned `list` and then `lpstat -d` returned
\* default d (nothing of the service is read or written between the two awaits);
\* this.printers = []; the loop starts getPrinterInfo for the first line, or,
\* with no line, the refresh is over and its caller continues.
LpstatDone(t, list, d) ==
  /\ pc[t] = "lpstat"
  /\ IF Len(list) > 0
     THEN /\ printers' = <<>>
          /\ rf' = [rf EXCEPT ![t] = [lines |-> list, dflt |-> d]]
          /\ pc' = [pc EXCEPT ![t] = "info"]
          /\ trigger' = "none"
          /\ reply' = NoReply
          /\ UNCHANGED <<defaultPrinter, printQueue, isProcessingQueue, lastPrintTime,
                         clock, tgt, resp, http, job, spool, lastDrained, taken>>
     ELSE LET f == FallbackDefault(<<>>, defaultPrinter)
              S == AfterRefresh(Cur, t, f[1])
          IN  /\ printers' = f[1]
              /\ defaultPrinter' = f[2]
              /\ rf' = rf
              /\ Commit(S)
  /\ resolved' = Observe(resolved, list, d)
  /\ UNCHANGED <<nextId, rq>>
  /\ UNCHANGED <<pv, lastPreview, logo, call, dev>>

\* refreshPrinters: getPrinterInfo returned for the line at hand; the printer is
\* pushed; the loop goes on, or the refresh ends and its caller continues.
InfoDone(t) ==
  /\ pc[t] = "info"
  /\ LET r == PushPrinter(printers, defaultPrinter, Head(rf[t].lines), rf[t].dflt)
     IN  IF Len(rf[t].lines) > 1
         THEN /\ printers' = r[1]
              /\ defaultPrinter' = r[2]
              /\ rf' = [rf EXCEPT ![t].lines = Tail(@)]
              /\ trigger' = "none"
              /\ reply' = NoReply
              /\ UNCHANGED <<printQueue, isProcessingQueue, lastPrintTime, clock, pc,
                             tgt, resp, http, job, spool, lastDrained, taken, resolved>>
         ELSE LET f == FallbackDefault(r[1], r[2])
                  S == AfterRefresh(Cur, t, f[1])
              IN  /\ printers' = f[1]
                  /\ defaultPrinter' = f[2]
                  /\ rf' = [rf EXCEPT ![t] = NoRefresh]
                  /\ resolved' = Resolve(resolved, Cur, t, f[1], rf[t].dflt)
                  /\ Commit(S)
  /\ UNCHANGED <<nextId, rq>>
  /\ UNCHANGED <<pv, lastPreview, logo, call, dev>>

\* formatReceipt returned (it awaits fs.access for the logo); print() checks
\* this.printers and starts writing the temporary file, or throws.
FormatDone(t) ==
  /\ pc[t] = "format"
  /\ IF PrintCheck(printers, tgt[t]) = "ok"
     THEN Commit([Cur EXCEPT !.pc[t] = "lp"])
     ELSE Commit(Failed(Cur, t))
  /\ UNCHANGED <<printers, defaultPrinter, nextId, rq, rf>>
  /\ UNCHANGED previewVars

\* print(): the lp command accepted the file.
LpOk(t) ==
  /\ pc[t] = "lp"
  /\ Commit(Printed(Cur, t))
  /\ UNCHANGED <<printers, defaultPrinter, nextId, rq, rf>>
  /\ UNCHANGED previewVars

\* print(): writing the file or the lp command failed.
LpFail(t) ==
  /\ pc[t] = "lp"
  /\ Commit(Failed(Cur, t))
  /\ UNCHANGED <<printers, defaultPrinter, nextId, rq, rf>>
  /\ UNCHANGED previewVars

\* GET /status: getAvailablePrinters starts a refresh.
StatusStart ==
  /\ pc[Status] = "idle"
  /\ pc' = [pc EXCEPT ![Status] = "lpstat"]
  /\ trigger' = "none"
  /\ reply' = NoReply
  /\ UNCHANGED previewVars
  /\ UNCHANGED <<printers, defaultPrinter, printQueue, isProcessingQueue, lastPrintTime,
                 clock, nextId, rq, rf, tgt, resp, http, job, spool, lastDrained, taken>>

\* POST /preview: validation as in POST /print (400, or 500 on a throw); a
\* valid receipt goes to previewReceipt, which awaits the look for the logo.
PreviewStart(receipt, order) ==
  LET v == validateReceiptData(receipt)
  IN  /\ pc[Preview] = "idle"
      /\ IF v.threw \/ ~v.valid
         THEN /\ reply' = [NoReply EXCEPT !.kind = "preview",
                                          !.http = IF v.threw THEN 500 ELSE 400]
              /\ UNCHANGED <<pc, pv>>
         ELSE /\ reply' = NoReply
              /\ pv' = [receipt |-> receipt, order |-> order, out |-> NoOut]
              /\ pc' = [pc EXCEPT ![Preview] = "format"]
      /\ trigger' = "none"
      /\ UNCHANGED <<lastPreview, logo, call, dev, resolved>>
      /\ UNCHANGED <<printers, defaultPrinter, printQueue, isProcessingQueue, lastPrintTime,
                     clock, nextId, rq, rf, tgt, resp, http, job, spool, lastDrained, taken>>

\* POST /preview: previewReceipt returned; the answer is sent.
PreviewDone ==
  /\ pc[Preview] = "format"
  /\ LET S == PreviewEnd(Cur, pv, logo)
     IN  /\ Commit(S)
         /\ lastPreview' = [receipt |-> pv.receipt, order |-> pv.order,
                             out |-> S.reply.preview, queued |-> (printQueue # <<>>),
                             again |-> /\ pv.receipt = lastPreview.receipt
                                       /\ pv.order = lastPreview.order
                                       /\ lastPreview.queued # (printQueue # <<>>)]
  /\ pv' = NoPreview
  /\ UNCHANGED <<printers, defaultPrinter, nextId, rq, rf, logo, call, dev, resolved>>

\* The type tags a caller passes: the five known ones, an unknown one, spellings
\* in other case, values that are no strings, and none.
Tags ==
  {Str(t) : t \in KnownTypes \cup {"unknown_type_xyz", "UNKNOWN_TYPE_XYZ", "SALES", "Sales",
                                   "CASH_TRANSFER", "Shift_Closure"}}
    \cup {Undefined, Null, Number42}

\* The documents rendered: one of each schema for each order number.
Docs == [schema : KnownTypes, order : Orders]

\* The receipts validated: null, empty, and for each schema the complete one
\* and the ones that lack one required field.
ValidationReceipts ==
  {NullReceipt, Fields({})}
    \cup {Fields(Required(t)) : t \in KnownTypes}
    \cup UNION {{Fields(Required(t) \ {f}) : f \in Required(t)} : t \in KnownTypes}

\* A direct call of formatReceipt(doc, type), as the examples make it.
Render(doc, type) ==
  /\ call' = LET r == formatReceipt(doc, type, logo)
             IN  [NoCall EXCEPT !.op = "render", !.doc = doc, !.type = type,
                                !.threw = r.threw, !.warned = r.warned, !.text = r.text]
  /\ trigger' = "none"
  /\ reply' = NoReply
  /\ UNCHANGED <<pv, lastPreview, logo, dev, resolved>>
  /\ UNCHANGED <<printers, defaultPrinter, printQueue, isProcessingQueue, lastPrintTime,
                 clock, nextId, pc, rq, rf, tgt, resp, http, job, spool, lastDrained, taken>>

\* A direct call of validateReceipt(receipt, type), as the tests make it.
Validate(receipt, type) ==
  /\ call' = LET r == validateReceipt(receipt, type)
             IN  [NoCall EXCEPT !.op = "validate", !.receipt = receipt, !.type = type,
                                !.threw = r.threw, !.valid = r.valid, !.errors = r.errors,
                                !.warned = (~r.threw /\ Switch(DefaultType(type)) = "default")]
  /\ trigger' = "none"
  /\ reply' = NoReply
  /\ UNCHANGED <<pv, lastPreview, logo, dev, resolved>>
  /\ UNCHANGED <<printers, defaultPrinter, printQueue, isProcessingQueue, lastPrintTime,
                 clock, nextId, pc, rq, rf, tgt, resp, http, job, spool, lastDrained, taken>>

\* ---------------------------------------------------- the development server
\* POST /print bodies sent to the development server: no receipt, an empty one,
\* a complete sales receipt; no type, or one that is no string; with and
\* without a printer name.
DevReceipts == {NullReceipt, Fields({}), Fields(Required("sales"))}
DevTypes == {Undefined, Null}
DevNames == {NoName, "DEV-PRINTER"}

\* The answer that ends a request of the development server.
DevAnswer(d, status, error) == [d EXCEPT !.pc = "idle", !.http = status, !.error = error]

\* POST /print of the development server, as far as the await of
\* processPrintJob: the job is pushed and stays in printQueue while it prints.
DevAccept(d, receipt, type, printerName) ==
  IF receipt.isNull THEN DevAnswer(d, 400, "Receipt data is required")
  ELSE LET v == validateReceipt(receipt, type)
       IN  IF v.threw \/ ~v.valid THEN DevAnswer(d, 400, "Invalid receipt data")
           ELSE IF Len(d.printQueue) >= maxQueueSize
                THEN DevAnswer(d, 503, "Print queue is full")
                ELSE [d EXCEPT !.printQueue = Append(@, [receipt |-> receipt,
                                                         printerName |-> printerName,
                                                         type |-> DefaultType(type)]),
                               !.pc = "print", !.http = 0, !.error = ""]

\* processPrintJob of the development server returned (res.json(result)) or
\* threw (the catch answers 400); neither takes the job out of printQueue.
DevFinish(d, printed) ==
  IF printed THEN DevAnswer(d, 200, "") ELSE DevAnswer(d, 400, "Print job failed")

DevPostPrint(receipt, type, printerName) ==
  /\ dev.pc = "idle"
  /\ dev' = DevAccept(dev, receipt, type, printerName)
  /\ UNCHANGED <<printers, defaultPrinter, printQueue, isProcessingQueue, lastPrintTime,
                 clock, nextId, pc, rq, rf, tgt, resp, http, job, spool, lastDrained, taken,
                 trigger, reply, pv, lastPreview, logo, call, resolved>>

DevPrintDone(printed) ==
  /\ dev.pc = "print"
  /\ dev' = DevFinish(dev, printed)
  /\ UNCHANGED <<printers, defaultPrinter, printQueue, isProcessingQueue, lastPrintTime,
                 clock, nextId, pc, rq, rf, tgt, resp, http, job, spool, lastDrained, taken,
                 trigger, reply, pv, lastPreview, logo, call, resolved>>

\* The steps of a run whose print system answers from `listings` and `defaults`
\* and whose requests bring a receipt of `receipts` (POST /print) or name a
\* printer of `names` (POST /test-print), cut after `submits` requests and
\* `readings` readings of the clock.
NextWith(listings, defaults, names, receipts, submits, readings) ==
  \/ \E t \in HttpTasks, n \in names, r \in receipts :
       /\ nextId <= submits
       /\ IF n = NoName THEN PostPrint(t, r) ELSE Submit(t, n)
  \/ TimerFire
  \/ \E t \in Tasks, list \in listings, d \in defaults :
       LpstatDone(t, list, d) /\ clock' <= readings
  \/ \E t \in Tasks : InfoDone(t) /\ clock' <= readings
  \/ \E t \in JobTasks : FormatDone(t)
  \/ \E t \in JobTasks : LpOk(t) /\ clock' <= readings
  \/ \E t \in JobTasks : LpFail(t)

Next == NextWith(Listings, Defaults, RequestNames, {GoodReceipt}, MaxSubmits, MaxClock)

NextSel ==
  NextWith(ListingsSel, DefaultsSel, RequestNamesSel, {GoodReceipt},
           MaxSubmitsSel, MaxClockSel)

NextFull ==
  NextWith(ListingsFull, Defaults, RequestNames, {GoodReceipt},
           maxQueueSize + MoreSubmits, maxQueueSize + MoreClock)

NextTwo ==
  NextWith(ListingsTwo, Defaults, RequestNames, {GoodReceipt}, MaxSubmitsTwo, MaxClockTwo)

\* The printer is enabled from now on: the backlog can be drained to the end.
NextDrain ==
  NextWith(ListingsDrain, Defaults, RequestNames, {GoodReceipt},
           maxQueueSize + MoreSubmits, 2 * maxQueueSize + MoreClock)

\* The printer is enabled from now on and lp accepts every file it is given.
NextLive ==
  \/ \E t \in HttpTasks : nextId <= maxQueueSize + MoreSubmits /\ PostPrint(t, GoodReceipt)
  \/ TimerFire
  \/ \E t \in Tasks, list \in ListingsDrain, d \in Defaults : LpstatDone(t, list, d)
  \/ \E t \in Tasks : InfoDone(t)
  \/ \E t \in JobTasks : FormatDone(t)
  \/ \E t \in JobTasks : LpOk(t)

\* Every receipt a client may send to POST /print, well-formed or not, and
\* GET /status.
NextApi ==
  \/ NextWith(Listings, Defaults, RequestNames, Receipts, MaxSubmitsApi, MaxClockApi)
  \/ StatusStart

\* POST /print with well-formed receipts, and POST /preview with receipts that
\* are well-formed, absent, invalid, or make the validation throw.
NextPreview ==
  \/ NextWith(Listings, Defaults, RequestNames, {GoodReceipt}, MaxSubmitsApi, MaxClockApi)
  \/ \E r \in PreviewReceipts, o \in Orders : PreviewStart(r, o)
  \/ PreviewDone

\* Direct calls of the formatter and of the validators.
NextFormat ==
  \/ \E d \in Docs, ty \in Tags : Render(d, ty)
  \/ \E r \in ValidationReceipts, ty \in Tags : Validate(r, ty)

\* The development server alone: any POST /print body, and a simulated print
\* that returns or throws.
NextDev ==
  \/ \E r \in DevReceipts, ty \in DevTypes, n \in DevNames : DevPostPrint(r, ty, n)
  \/ \E printed \in BOOLEAN : DevPrintDone(printed)

Spec == Init /\ [][Next]_vars

SpecSel == InitSel /\ [][NextSel]_vars

SpecTwo == InitTwo /\ [][NextTwo]_vars

SpecDev == Init /\ [][NextDev]_vars

SpecFull == InitFull /\ [][NextFull]_vars

SpecDrain == InitDrain /\ [][NextDrain]_vars

SpecApi == InitApi /\ [][NextApi]_vars

SpecPreview == InitPreview /\ [][NextPreview]_vars

\* What the runtime guarantees: the interval timer keeps firing, and every
\* command or file operation a task awaits comes back.
Fairness ==
  /\ WF_vars(TimerFire)
  /\ \A t \in Tasks :
       /\ WF_vars(\E list \in ListingsDrain, d \in Defaults : LpstatDone(t, list, d))
       /\ WF_vars(InfoDone(t))
  /\ \A t \in JobTasks :
       /\ WF_vars(FormatDone(t))
       /\ WF_vars(LpOk(t))

\* The printer is enabled for good, a short backlog waits, requests may come,
\* and the lp command accepts every file.
SpecLive == InitLive /\ [][NextLive]_vars /\ Fairness

SpecFormat == InitFormat /\ [][NextFormat]_vars

\* ------------------------------------------------------------- properties
\* Task t's processPrintJob call gets its snapshot in this step: the refresh
\* it awaited ends, and printers' is what getAvailablePrinters returns.
Decides(t) == pc[t] \in {"lpstat", "info"} /\ pc'[t] \notin {"lpstat", "info"}

\* The jobs a drain pass has still to submit, the one it holds first.
Pending == (IF job = NoJob THEN <<>> ELSE <<job>>) \o printQueue

\* C1: in every reachable state the queue of pending jobs holds at most 10 jobs.
C1_QueueBounded == Len(printQueue) <= 10

\* C2: when the printer a request resolves to is not online, a queue of fewer
\* than 10 jobs gets the job appended and the answer is Queued with the new
\* length as position; a queue of 10 jobs stays as it is and the answer is
\* QueueFull.
C2_EnqueueOrQueueFull ==
  [][\A t \in HttpTasks :
       LET i == SelectTarget(printers', rq[t].printerName)
       IN  (Decides(t) /\ i # 0 /\ printers'[i].status # "online") =>
             IF Len(printQueue) < 10
             THEN /\ resp'[t].kind = "Queued"
                  /\ resp'[t].position = Len(printQueue) + 1
                  /\ Len(printQueue') = Len(printQueue) + 1
                  /\ SubSeq(printQueue', 1, Len(printQueue)) = printQueue
                  /\ printQueue'[Len(printQueue')].receipt = rq[t].receipt
             ELSE /\ resp'[t].kind = "QueueFull"
                  /\ printQueue' = printQueue]_vars

\* The 10th enqueue: a request was answered Queued at position 10.
C2_TenthEnqueued ==
  \E t \in HttpTasks : resp[t].kind = "Queued" /\ resp[t].position = 10

TimerEnds == pc[Timer] \in {"lpstat", "info"} /\ pc'[Timer] = "idle"

\* C4: at most one drain pass runs.  The flag is up exactly while a pass holds
\* a job, and a trigger (the periodic refresh ending, a request's print
\* succeeding) that fires while the flag is up starts nothing: the pass goes on
\* with the job it holds and the queue keeps its order.
C4_OneDrainPass ==
  [][/\ isProcessingQueue = (job # NoJob)
     /\ isProcessingQueue = (pc[Drain] # "idle")
     /\ (isProcessingQueue /\
           (TimerEnds \/ \E t \in HttpTasks : pc[t] = "lp" /\ resp'[t].kind = "Printed"))
          => /\ isProcessingQueue'
             /\ job' = job
             /\ pc'[Drain] = pc[Drain]
             /\ printQueue' = printQueue]_vars

\* A trigger has just fired while a drain pass was running.
C4_TriggerDeclined == trigger = "declined" /\ isProcessingQueue /\ job # NoJob

\* C5: a request whose printer was online at selection and whose print then
\* fails is answered PrintFailed; the queue, the job a drain pass holds and
\* lastPrintTime stay as they were, and the request is over (no retry).
C5_PrintFailedNotQueued ==
  [][\A t \in HttpTasks :
       (pc[t] \in {"format", "lp"} /\ pc'[t] = "done" /\ spool' = spool)
         => /\ resp'[t].kind = "PrintFailed"
            /\ printQueue' = printQueue
            /\ job' = job
            /\ isProcessingQueue' = isProcessingQueue
            /\ lastPrintTime' = lastPrintTime]_vars

\* A request was answered PrintFailed.
C5_PrintFailed == \E t \in HttpTasks : resp[t].kind = "PrintFailed"

\* C6: every job is submitted to the spooler at most once, and stands at most
\* once among the pending jobs.
C6_AtMostOnce ==
  /\ \A r \in DOMAIN spool : spool[r].count <= 1
  /\ \A i, k \in 1..Len(Pending) : i # k => Pending[i].receipt # Pending[k].receipt

\* C7: the "Rongta" scenario, step by step.  (a) A request that finds the queue
\* empty and "Rongta" not online is answered Queued at position 1.  (b) A
\* periodic refresh that ends with jobs queued and no pass running starts a
\* drain pass on the oldest job.  (c) The pass finds "Rongta" online and goes on
\* to print on it; when lp accepts the job it counts as printed on "Rongta",
\* and with nothing else queued the queue is empty and the pass is over.
C7_RongtaScenario ==
  [][/\ \A t \in HttpTasks :
          (/\ Decides(t) /\ printQueue = <<>>
           /\ Len(printers') = 1 /\ printers'[1].name = "Rongta"
           /\ printers'[1].status # "online")
            => resp'[t] = Outcome("Queued", 1, "Rongta") /\ Len(printQueue') = 1
     /\ (TimerEnds /\ Len(printQueue) > 0 /\ ~isProcessingQueue)
          => /\ isProcessingQueue'
             /\ job' = Head(printQueue)
             /\ printQueue' = Tail(printQueue)
     /\ (/\ Decides(Drain)
         /\ Len(printers') = 1 /\ printers'[1].name = "Rongta"
         /\ printers'[1].status = "online")
          => pc'[Drain] = "format" /\ tgt'[Drain] = "Rongta"
     /\ (pc[Drain] = "lp" /\ tgt[Drain] = "Rongta" /\ lastDrained' # lastDrained)
          => /\ spool'[job.receipt].printer = "Rongta"
             /\ spool'[job.receipt].count = spool[job.receipt].count + 1
             /\ printQueue = <<>> =>
                  printQueue' = <<>> /\ ~isProcessingQueue' /\ job' = NoJob]_vars

\* The scenario has run: the request for receipt 1 was answered Queued at
\* position 1 for "Rongta", a drain pass has printed it there, once, and the
\* queue is empty again.
C7_QueuedThenPrinted ==
  /\ \E t \in HttpTasks : rq[t].receipt = 1 /\ resp[t] = Outcome("Queued", 1, "Rongta")
  /\ spool[1] = [count |-> 1, printer |-> "Rongta"]
  /\ lastDrained = 1
  /\ printQueue = <<>>
  /\ ~isProcessingQueue

\* C8: a request naming a printer the snapshot does not hold is answered
\* PrinterNotFound, which is not the answer for an empty snapshot, and the
\* queue is left as it was.
C8_PrinterNotFound ==
  [][\A t \in HttpTasks :
       (/\ Decides(t) /\ rq[t].printerName # NoName /\ printers' # <<>>
        /\ \A i \in 1..Len(printers') : printers'[i].name # rq[t].printerName)
         => /\ resp'[t].kind = "PrinterNotFound"
            /\ resp'[t].kind # "NoPrintersAvailable"
            /\ printQueue' = printQueue]_vars

\* C9: with an empty snapshot every request, whatever printer it names, is
\* answered NoPrintersAvailable and the queue is left as it was.
C9_NoPrintersAvailable ==
  [][\A t \in HttpTasks :
       (Decides(t) /\ printers' = <<>>)
         => /\ pc'[t] = "done"
            /\ resp'[t].kind = "NoPrintersAvailable"
            /\ printQueue' = printQueue]_vars

\* A request naming "Rongta" found the snapshot empty and was refused.
C9_NamedRequestRefused ==
  \E t \in HttpTasks :
    /\ rq[t].printerName = "Rongta"
    /\ resp[t].kind = "NoPrintersAvailable"
    /\ printers = <<>>

\* C10: the target is the first snapshot entry with the requested name; with no
\* requested name, the first entry flagged default, or else the first entry.
\* Its status decides only what happens next: an online target is printed on,
\* one that is not online gets the job queued (or refused, queue full) under
\* its own name, whatever the status of the other entries.
C10_Selection ==
  [][\A t \in HttpTasks :
       (Decides(t) /\ printers' # <<>>) =>
         LET P == printers'
             n == rq[t].printerName
             IsTarget(i) ==
               IF n # NoName
               THEN P[i].name = n /\ \A k \in 1..(i - 1) : P[k].name # n
               ELSE \/ P[i].isDefault /\ \A k \in 1..(i - 1) : ~P[k].isDefault
                    \/ i = 1 /\ \A k \in 1..Len(P) : ~P[k].isDefault
         IN  /\ (\A i \in 1..Len(P) : ~IsTarget(i)) => resp'[t].kind = "NoPrintersAvailable"
             /\ \A i \in 1..Len(P) :
                  IsTarget(i) =>
                    IF P[i].status = "online"
                    THEN pc'[t] = "format" /\ tgt'[t] = P[i].name
                    ELSE /\ pc'[t] = "done"
                         /\ resp'[t].kind \in {"Queued", "QueueFull"}
                         /\ resp'[t].kind = "Queued" => resp'[t].printerId = P[i].name]_vars

\* A job was queued for "Rongta", which is not online, while the snapshot
\* lists "Rongta2" online.
C10_OfflineTargetKept ==
  /\ \E t \in HttpTasks : resp[t].kind = "Queued" /\ resp[t].printerId = "Rongta"
  /\ \E i \in 1..Len(printers) : printers[i].name = "Rongta" /\ printers[i].status # "online"
  /\ \E i \in 1..Len(printers) : printers[i].name = "Rongta2" /\ printers[i].status = "online"

\* A receipt with every required field present and of the right type.
WellFormed(receipt) == receipt.scalars = "ok" /\ receipt.items = "ok"

\* C11: POST /print answers 200 when the job was printed or queued, 400 when
\* the receipt fails validation, 500 when processPrintJob threw; and a request
\* whose receipt fails validation leaves the queue, the flag and lastPrintTime
\* as they were.
C11_HttpStatus ==
  [][\A t \in HttpTasks :
       (http'[t] # 0 /\ <<http'[t], resp'[t], rq'[t]>> # <<http[t], resp[t], rq[t]>>) =>
         IF WellFormed(rq'[t].body)
         THEN /\ resp'[t].kind \in {"Printed", "Queued"} => http'[t] = 200
              /\ resp'[t].kind \in {"NoPrintersAvailable", "QueueFull", "PrintFailed"}
                   => http'[t] = 500
              /\ resp'[t].kind \in {"Printed", "Queued", "NoPrintersAvailable",
                                     "QueueFull", "PrintFailed"}
         ELSE /\ http'[t] = 400
              /\ printQueue' = printQueue
              /\ isProcessingQueue' = isProcessingQueue
              /\ lastPrintTime' = lastPrintTime]_vars

\* A step of the POST /preview handler.
PreviewSteps ==
  pc'[Preview] # pc[Preview] \/ pv' # pv \/ lastPreview' # lastPreview \/ reply'.kind = "preview"

\* C12: a step of the preview handler, whatever the receipt and the state,
\* leaves the queue, the draining flag and the last print time as they are,
\* hands nothing to the spooler, takes no job in hand, selects no target and
\* leaves the printer list alone.
C12_PreviewFrame ==
  [][PreviewSteps =>
       /\ printQueue' = printQueue
       /\ isProcessingQueue' = isProcessingQueue
       /\ lastPrintTime' = lastPrintTime
       /\ spool' = spool
       /\ job' = job
       /\ tgt' = tgt
       /\ printers' = printers
       /\ defaultPrinter' = defaultPrinter]_vars

\* A preview was answered while a job waited in the queue.
C12_PreviewWhileQueued ==
  reply.kind = "preview" /\ reply.http = 200 /\ Len(printQueue) > 0

\* A step of the GET /status handler.
StatusSteps == pc'[Status] # pc[Status] \/ rf'[Status] # rf[Status]

\* C13: the answer of GET /status carries the queue length, the capacity 10 and
\* the last print time as they are when it is sent, and no step of the handler
\* changes the queue, the draining flag or the last print time.
C13_StatusSnapshot ==
  [][/\ StatusSteps =>
          /\ printQueue' = printQueue
          /\ isProcessingQueue' = isProcessingQueue
          /\ lastPrintTime' = lastPrintTime
     /\ reply'.kind = "status" =>
          /\ reply'.http = 200
          /\ reply'.queueLength = Len(printQueue)
          /\ reply'.maxQueueSize = 10
          /\ reply'.lastPrintTime = lastPrintTime]_vars

\* The status was answered with a job in the queue.
C13_StatusWhileQueued ==
  reply.kind = "status" /\ reply.queueLength = 1 /\ printQueue # <<>>

UnknownTag(type) == type # Undefined /\ ~(type.isString /\ type.text \in KnownTypes)

\* C15: formatReceipt of a document of the sales schema with a type tag that is
\* none of the five known types does not throw, returns what it returns for the
\* type "sales", and logs the warning.
C15_FallbackSafety ==
  (call.op = "render" /\ call.doc.schema = "sales" /\ UnknownTag(call.type)) =>
     /\ ~call.threw
     /\ call.text = formatReceipt(call.doc, Str("sales"), logo).text
     /\ call.warned

\* C16: validateReceipt with a type that is none of the five known ones, or with
\* no type, returns the result of validateSalesReceipt for the same receipt;
\* with a known type it returns the result of that type's validator, which is
\* invalid with at least one error when a required field is missing.
C16_ValidateReceipt ==
  call.op = "validate" =>
     IF call.type = Undefined \/ UnknownTag(call.type)
     THEN /\ ~call.threw
          /\ call.valid = validateSalesReceipt(call.receipt).valid
          /\ call.errors = validateSalesReceipt(call.receipt).errors
     ELSE /\ ~call.threw
          /\ call.valid = validateTyped(call.type.text, call.receipt).valid
          /\ call.errors = validateTyped(call.type.text, call.receipt).errors
          /\ (call.receipt.isNull \/ ~(Required(call.type.text) \subseteq call.receipt.fields))
               => (~call.valid /\ call.errors # {})

\* The drain pass's refresh ends with its job's target in the list, not online.
DrainFindsOffline ==
  /\ pc[Drain] = "info" /\ rf[Drain] # NoRefresh /\ rf'[Drain] = NoRefresh
  /\ LET i == SelectTarget(printers', job.printerName)
     IN  i # 0 /\ printers'[i].status # "online"

\* C17: when a drain pass finds the target of the job it took still not online,
\* the job is back at the front and the queue is what it was before the job was
\* taken: the job followed by the jobs that were behind it.
C17_RequeueKeepsQueue ==
  [][DrainFindsOffline => printQueue' = <<job>> \o printQueue]_vars

\* C18: once a drain pass has found the target of the job it took not online,
\* the pass is over: it takes no later job.
C18_NoSkipAhead ==
  [][DrainFindsOffline =>
       /\ pc'[Drain] = "idle"
       /\ job' = NoJob
       /\ ~isProcessingQueue']_vars

\* The print of the drain pass's job fails: print() throws before or after the
\* lp command.
DrainPrintFails ==
  /\ pc[Drain] \in {"format", "lp"}
  /\ pc'[Drain] \in {"lpstat", "idle"}
  /\ spool' = spool

\* C19: when the print of a drain pass's job fails, the job is in the queue no
\* more, no request is answered with the failure, and the pass goes on with the
\* next job if there is one.
C19_FailedJobDropped ==
  [][DrainPrintFails =>
       /\ (IF job' = NoJob THEN <<>> ELSE <<job'>>) \o printQueue' = printQueue
       /\ resp' = resp /\ http' = http /\ reply' = NoReply
       /\ IF printQueue # <<>>
          THEN job' = Head(printQueue) /\ pc'[Drain] = "lpstat" /\ isProcessingQueue'
          ELSE job' = NoJob /\ pc'[Drain] = "idle" /\ ~isProcessingQueue']_vars

\* A drain pass goes on with the second job after the print of the first failed.
C19_PassWentOn ==
  /\ pc[Drain] = "lpstat" /\ job.receipt = 2
  /\ spool[1].count = 0
  /\ \A i \in 1..Len(printQueue) : printQueue[i].receipt # 1
  /\ lastPrintTime = 0

\* C20: a drain pass that ends, however it ends, has cleared the flag, and the
\* flag is down whenever no pass is executing.
C20_FlagCleared ==
  [][/\ (pc[Drain] # "idle" /\ pc'[Drain] = "idle") => (isProcessingQueue /\ ~isProcessingQueue')
     /\ pc'[Drain] = "idle" => ~isProcessingQueue']_vars

\* No pass is executing, one has printed a job, and jobs wait in the queue.
C20_PassOverJobsLeft ==
  pc[Drain] = "idle" /\ ~isProcessingQueue /\ lastDrained > 0 /\ printQueue # <<>>

\* C21: within one drain pass no receipt is taken for an attempt twice, also
\* when requests queue further jobs while the pass runs.
C21_OncePerPass ==
  \A i, k \in 1..Len(taken) : i # k => taken[i] # taken[k]

\* The copies the spooler has accepted so far.
Accepted(sp) == {r \in DOMAIN sp : sp[r].count > 0}

\* C22: the last print time is unset (0) as long as the spooler has accepted
\* nothing; a step in which the spooler accepts a job, for a request or for a
\* drain pass, sets it to the time read in that step; no other step changes it.
C22_LastPrintTime ==
  [][/\ (Accepted(spool') = {}) => lastPrintTime' = 0
     /\ spool' # spool => (lastPrintTime' = clock' /\ clock' > clock /\ lastPrintTime' > 0)
     /\ spool' = spool => lastPrintTime' = lastPrintTime]_vars

\* Both receipts have been accepted by the spooler, a drain pass has printed,
\* and the last print time is the latest reading of the clock.
C22_StampedByDrain ==
  /\ lastPrintTime = clock /\ lastDrained > 0
  /\ spool[1].count > 0 /\ spool[2].count > 0
  /\ pc[Drain] = "idle"

\* The list holds the printer of that name, online.
ListedOnline(P, name) ==
  LET i == Find(Named(P, name)) IN i # 0 /\ P[i].status = "online"

\* C23: a job whose target was online in the list used for the selection and is
\* absent from the list, or in it but not online, when print() is called ends
\* in PrintFailed and is not queued: a request is answered PrintFailed with the
\* queue as it was, a drain pass drops the job.
C23_StalePrinter ==
  [][\A t \in JobTasks :
       (pc[t] = "format" /\ pc'[t] # "format" /\ ~ListedOnline(printers, tgt[t])) =>
          /\ spool' = spool
          /\ pc'[t] # "lp"
          /\ IF t = Drain
             THEN (IF job' = NoJob THEN <<>> ELSE <<job'>>) \o printQueue' = printQueue
             ELSE /\ resp'[t].kind = "PrintFailed"
                  /\ printQueue' = printQueue]_vars

\* A request was answered PrintFailed while the periodic refresh was rebuilding
\* the list, which was empty at that moment.
C23_FailedDuringRefresh ==
  /\ \E t \in HttpTasks : resp[t].kind = "PrintFailed" /\ pc[t] = "done"
  /\ printers = <<>> /\ pc[Timer] = "info"
  /\ trigger = "none" /\ printQueue = <<>> /\ lastPrintTime = 0

\* The print of a request succeeds in this step.
DirectPrint(t) == pc[t] = "lp" /\ resp'[t].kind = "Printed"

\* C24: when the print of a request succeeds and no drain pass is running,
\* processQueue is called: with jobs queued a pass starts on the oldest; and in
\* the same step, with that pass still at its first job, the request gets its
\* Printed answer.
C24_NonBlockingDrain ==
  [][\A t \in HttpTasks :
       (DirectPrint(t) /\ ~isProcessingQueue) =>
          /\ pc'[t] = "done" /\ http'[t] = 200
          /\ IF printQueue # <<>>
             THEN /\ isProcessingQueue' /\ trigger' = "started"
                  /\ job' = Head(printQueue) /\ printQueue' = Tail(printQueue)
                  /\ pc'[Drain] = "lpstat"
             ELSE ~isProcessingQueue' /\ pc'[Drain] = "idle"]_vars

\* A request has its Printed answer while the pass its print started is
\* waiting for the printer list for its first job.
C24_AnsweredWhileDraining ==
  \E t \in HttpTasks :
    /\ resp[t].kind = "Printed" /\ pc[t] = "done" /\ http[t] = 200
    /\ trigger = "started" /\ isProcessingQueue /\ pc[Drain] = "lpstat" /\ job # NoJob

\* A drain pass starts in this step.
PassStarts == ~isProcessingQueue /\ isProcessingQueue'

\* C25 as stated: a drain pass starts only when a print succeeds or when a
\* periodic refresh ends that has found a printer online (as it must to see
\* one that was offline come online).
C25_TwoTriggers ==
  [][PassStarts =>
       \/ \E t \in HttpTasks : DirectPrint(t)
       \/ TimerEnds /\ \E i \in 1..Len(printers') : printers'[i].status = "online"]_vars

\* C25 amended: a drain pass starts only when a print succeeds or when a
\* periodic refresh ends with jobs in the queue, whatever the printers' status.
C25_TwoTriggersAnyStatus ==
  [][PassStarts =>
       \/ \E t \in HttpTasks : DirectPrint(t)
       \/ TimerEnds /\ printQueue # <<>>]_vars

\* A periodic refresh that found no printer online has started a drain pass.
C25_StartedWhileOffline ==
  /\ trigger = "started" /\ isProcessingQueue /\ pc[Timer] = "idle"
  /\ printers # <<>> /\ \A i \in 1..Len(printers) : printers[i].status # "online"
  /\ Accepted(spool) = {}

\* C26: with the printer online for good, the periodic refresh firing and lp
\* accepting every file, eventually the queue is empty, no job is held, and
\* every job of the backlog has been printed.
C26_BacklogPrinted ==
  <>(/\ printQueue = <<>> /\ job = NoJob
     /\ \A r \in 1..BacklogLive : spool[r].count > 0)

\* C27: with one printer, to which every job goes, lp accepts the file of a
\* request only when no earlier job is waiting for that printer, in the queue
\* or in the hands of a drain pass.
C27_NoOvertaking ==
  [][\A t \in HttpTasks : DirectPrint(t) => Pending = <<>>]_vars

\* Task t's refresh, which had one printer reported, returns in this step.
RefreshReturns(t) ==
  pc[t] = "info" /\ Len(rf[t].lines) = 1 /\ rf'[t] = NoRefresh

\* C28: with one printer known to the print system, the list a refresh returns
\* holds the printer reported to that refresh, once; and the list print()
\* consults holds no printer twice and is not one that a refresh has emptied
\* and is still filling.
C28_WholeLists ==
  [][/\ \A t \in Tasks :
          RefreshReturns(t) =>
            (Len(printers') = 1 /\ printers'[1].name = Head(rf[t].lines).name)
     /\ \A t \in JobTasks :
          (pc[t] = "format" /\ pc'[t] # "format") =>
            /\ \A i, k \in 1..Len(printers) : i # k => printers[i].name # printers[k].name
            /\ \A u \in Tasks : pc[u] # "info"]_vars

\* C29: on the development server a valid POST /print that arrives after any
\* number of completed /print requests is accepted, never answered
\* 'Print queue is full'.
C29_DevNeverFull == ~(dev.http = 503 /\ dev.error = "Print queue is full")

\* C30: while the print system keeps reporting the same printers with the same
\* statuses and no default, a processPrintJob call without a printer name
\* resolves to the target the call before it resolved to.
C30_SameTarget ==
  [][(resolved.list # <<>> /\ resolved'.list = resolved.list)
       => resolved'.target = resolved.target]_vars

====
